---- MODULE Spec2Model ----
(***************************************************************************)
(* Payment transaction lifecycle of backend/lambda/payments/transbank.py.  *)
(*                                                                         *)
(* Every Lambda invocation is a process with its own locals; the shared    *)
(* state is the two database tables (payment_transactions, bookings) and   *)
(* the external gateway's table of transactions.  A process takes one step *)
(* per call that leaves the invocation (gateway request, SQL statement),   *)
(* so that invocations interleave exactly where the code lets them.        *)
(*                                                                         *)
(* Python values: an optional value (the result of dict.get, a nullable    *)
(* column) is None == <<>> or Some(v) == <<v>>.  Order references, tokens  *)
(* and booking references are numbered in order of generation (uuid4       *)
(* values are taken to be fresh).  Timestamps are not modelled.            *)
(***************************************************************************)
EXTENDS Integers, Sequences, FiniteSets, TLC

\* ---------------------------------------------------------------- bounds
NumProcs == 2        \* Lambda invocations that may run at the same time
MaxRequests == 3     \* invocations started in one behaviour

Procs == 1..NumProcs

\* ---------------------------------------------------------- Python values
None == <<>>
Some(v) == <<v>>

\* dict.get(key): None when the key is absent
Get(d, key) == IF key \in DOMAIN d THEN Some(d[key]) ELSE None

\* dict.get(key, default)
GetDefault(d, key, default) == IF key \in DOMAIN d THEN d[key] ELSE default

\* int(x) of the rational num/den: truncation toward zero
IntTrunc(num, den) ==
    IF num >= 0 THEN num \div den ELSE 0 - ((0 - num) \div den)

\* ------------------------------------------------------------- the inputs
\* Base amounts a caller may send.  3 has a fractional total (3.57), 10000 a
\* whole one (11900); -3 is accepted by the code, which validates nothing.
\* The fourth amount, 0, comes with the request that names no flight.
BaseAmounts == {-3, 3, 10000}

\* payment_data dictionaries of the create action
PaymentRequests ==
    { [amount |-> a, flight_id |-> "LA100", user_id |-> "u1", passenger_count |-> 2] :
          a \in BaseAmounts }
    \cup { [amount |-> 0, user_id |-> "u1"] }
    \cup { [flight_id |-> "LA100", user_id |-> "u1"] }

\* ------------------------------------------------------------ the state
VARIABLES
    payment_transactions,  \* table payment_transactions: sequence of rows
    bookings,              \* table bookings: sequence of rows
    gateway,               \* the gateway's transactions; the token is the index.
                           \* released: the create call that obtained the token
                           \* has ended (until then the token exists only in
                           \* that call's locals and nobody can present it)
    pc,                    \* pc[p]: where invocation p stands
    op,                    \* op[p]: "none", "create" or "confirm"
    local,                 \* local[p]: the invocation's local variables
    result,                \* result[p]: what the operation returned (at "done")
    http,                  \* http[p]: the handler's response (at "done")
    trace,                 \* trace[p]: what the invocation has done so far
    approved_refs,         \* order references a confirm's UPDATE set to approved
    orders,                \* buy orders generated so far
    booking_refs,          \* booking references generated so far
    requests,              \* invocations started so far
    flights,               \* table flights: sequence of rows (flight search)
    found                  \* what the last search_flights returned

search_vars == <<flights, found>>

payment_vars == <<payment_transactions, bookings, gateway, pc, op, local, result,
                  http, trace, approved_refs, orders, booking_refs, requests>>

vars == <<payment_vars, search_vars>>

NoLocal == [buy_order |-> 0]

NoTrace == [gateway_calls |-> 0, gateway_outcome |-> "none",
            store_inserts |-> 0, update |-> "none",
            finalizer_calls |-> 0, finalizer_outcome |-> "none",
            booking_inserts |-> 0,
            notifications |-> 0, notifier_outcome |-> "none"]

\* no payment request has been handled yet
PaymentInit ==
    /\ payment_transactions = <<>>
    /\ bookings = <<>>
    /\ gateway = <<>>
    /\ pc = [p \in Procs |-> "idle"]
    /\ op = [p \in Procs |-> "none"]
    /\ local = [p \in Procs |-> NoLocal]
    /\ result = [p \in Procs |-> None]
    /\ http = [p \in Procs |-> None]
    /\ trace = [p \in Procs |-> NoTrace]
    /\ approved_refs = {}
    /\ orders = 0
    /\ booking_refs = 0
    /\ requests = 0

\* the payment handler's state after construction; it never reads flights
Init ==
    /\ PaymentInit
    /\ flights = <<>>
    /\ found = None

\* Invocation slot p is free: no invocation has used it, or the one that did
\* has returned.  Slots are interchangeable, so a request takes the first free
\* one.
Free(p) == pc[p] \in {"idle", "done"}

Starts(p) ==
    /\ Free(p)
    /\ \A q \in Procs : q < p => ~Free(q)
    /\ requests < MaxRequests
    /\ requests' = requests + 1

Failure(e) == [success |-> FALSE, error |-> e]

\* lines 392-397: the headers of the response to a completed operation
OkHeaders ==
    [h \in {"Content-Type", "Access-Control-Allow-Origin",
            "Access-Control-Allow-Headers", "Access-Control-Allow-Methods"} |->
        CASE h = "Content-Type" -> "application/json"
          [] h = "Access-Control-Allow-Origin" -> "*"
          [] h = "Access-Control-Allow-Headers" ->
                "Content-Type,X-Amz-Date,Authorization,X-Api-Key,X-Amz-Security-Token"
          [] h = "Access-Control-Allow-Methods" -> "GET,POST,OPTIONS"]

\* lines 405-408: the headers of the error response
ErrorHeaders ==
    [h \in {"Content-Type", "Access-Control-Allow-Origin"} |->
        IF h = "Content-Type" THEN "application/json" ELSE "*"]

\* lines 390-399: the response that carries an operation's result
HttpOk(r) == [statusCode |-> 200, headers |-> OkHeaders, body |-> r]

\* lines 401-414: the response to an exception the handler catches; debug is
\* os.environ.get('DEBUG') == 'true'
HttpError(e, debug) ==
    [statusCode |-> 500,
     headers |-> ErrorHeaders,
     body |-> Failure(IF debug THEN e ELSE "Payment processing failed")]

\* the operation returns r and the handler answers with it
Return(p, r) ==
    /\ pc' = [pc EXCEPT ![p] = "done"]
    /\ result' = [result EXCEPT ![p] = r]
    /\ http' = [http EXCEPT ![p] = HttpOk(r)]

\* ------------------------------------------------- create_payment_transaction
\* tax_amount = base_amount * 0.19, kept in hundredths of a currency unit.
\* (The code computes in binary floating point; for an integer base amount
\* below 10^13 the rounding error of the product and of the sum is far below
\* 0.01, the smallest non-zero fractional part of the exact total, and an
\* exact whole total is computed exactly, so int() sees the exact value.)
TaxHundredths(base_amount) == base_amount * 19

\* total_amount = round(base_amount + tax_amount) instead of int(...)
TotalAmountRounded(base_amount) ==
    (2 * (base_amount * 100 + base_amount * 19) + 100) \div 200

\* total_amount = int(base_amount + tax_amount)
TotalAmount(base_amount) ==
    IntTrunc(base_amount * 100 + TaxHundredths(base_amount), 100)

\* the dictionary handed to _store_transaction
TransactionData(buy_order, token, payment_data) ==
    [buy_order |-> buy_order,
     token |-> token,
     amount |-> TotalAmount(payment_data.amount),
     base_amount |-> payment_data.amount,
     tax_amount |-> TaxHundredths(payment_data.amount),
     flight_id |-> Get(payment_data, "flight_id"),
     user_id |-> Get(payment_data, "user_id"),
     passenger_count |-> GetDefault(payment_data, "passenger_count", 1),
     status |-> "pending"]

\* the INSERT with the amount parameters crossed: amount takes base_amount
NewRowCrossedAmounts(transaction_data) ==
    [buy_order |-> transaction_data.buy_order,
     token |-> transaction_data.token,
     amount |-> transaction_data.base_amount,
     base_amount |-> transaction_data.amount,
     tax_amount |-> transaction_data.tax_amount,
     flight_id |-> transaction_data.flight_id,
     user_id |-> transaction_data.user_id,
     passenger_count |-> transaction_data.passenger_count,
     status |-> transaction_data.status,
     payment_method |-> "transbank",
     authorization_code |-> None,
     response_code |-> None,
     card_number |-> None,
     installments |-> None,
     payment_type |-> None]

\* the row INSERTed by _store_transaction; the columns the INSERT does not
\* name are NULL
NewRow(transaction_data) ==
    [buy_order |-> transaction_data.buy_order,
     token |-> transaction_data.token,
     amount |-> transaction_data.amount,
     base_amount |-> transaction_data.base_amount,
     tax_amount |-> transaction_data.tax_amount,
     flight_id |-> transaction_data.flight_id,
     user_id |-> transaction_data.user_id,
     passenger_count |-> transaction_data.passenger_count,
     status |-> transaction_data.status,
     payment_method |-> "transbank",
     authorization_code |-> None,
     response_code |-> None,
     card_number |-> None,
     installments |-> None,
     payment_type |-> None]

\* the random suffix is left out: "VC-<date>", the same all day
BuyOrderOfTheDay(generated) == 1

\* line 63: "VC-<date>-<8 hex digits of a uuid4>", never generated before
BuyOrder(generated) == generated + 1

\* payment_data['amount'] raises KeyError: nothing has left the invocation
CreateMissingAmount(p, payment_data) ==
    /\ "amount" \notin DOMAIN payment_data
    /\ Return(p, Failure("'amount'"))
    /\ local' = [local EXCEPT ![p] = [buy_order |-> BuyOrder(orders)]]
    /\ trace' = [trace EXCEPT ![p] = NoTrace]
    /\ UNCHANGED <<payment_transactions, gateway>>

\* the row is stored before the gateway is asked, and stays when it fails
CreateGatewayFailureAfterStore(p, payment_data) ==
    /\ "amount" \in DOMAIN payment_data
    /\ \E outcome \in {"raise", "invalid"} :
          /\ trace' = [trace EXCEPT ![p] =
                [NoTrace EXCEPT !.gateway_calls = 1, !.gateway_outcome = outcome,
                                !.store_inserts = 1]]
          /\ Return(p, Failure(IF outcome = "raise" THEN "RequestException"
                               ELSE "Invalid response from Transbank"))
    /\ local' = [local EXCEPT ![p] =
          [buy_order |-> orders + 1,
           base_amount |-> payment_data.amount,
           sent_amount |-> TotalAmount(payment_data.amount)]]
    /\ payment_transactions' = Append(payment_transactions,
          [buy_order |-> orders + 1, token |-> 0,
           amount |-> TotalAmount(payment_data.amount),
           base_amount |-> payment_data.amount,
           tax_amount |-> payment_data.amount * 19,
           flight_id |-> Get(payment_data, "flight_id"),
           user_id |-> Get(payment_data, "user_id"),
           passenger_count |-> GetDefault(payment_data, "passenger_count", 1),
           status |-> "pending", payment_method |-> "transbank",
           authorization_code |-> None, response_code |-> None,
           card_number |-> None, installments |-> None, payment_type |-> None])
    /\ UNCHANGED gateway

\* the POST raises (network error, timeout, raise_for_status), or the answer
\* lacks url or token: the except branch returns the failure
CreateGatewayFailure(p, payment_data) ==
    /\ "amount" \in DOMAIN payment_data
    /\ \E outcome \in {"raise", "invalid"} :
          /\ trace' = [trace EXCEPT ![p] =
                [NoTrace EXCEPT !.gateway_calls = 1, !.gateway_outcome = outcome]]
          /\ Return(p, Failure(IF outcome = "raise" THEN "RequestException"
                               ELSE "Invalid response from Transbank"))
    /\ local' = [local EXCEPT ![p] =
          [buy_order |-> BuyOrder(orders),
           base_amount |-> payment_data.amount,
           sent_amount |-> TotalAmount(payment_data.amount)]]
    /\ UNCHANGED <<payment_transactions, gateway>>

\* the POST answers with url and token: the gateway holds the transaction
CreateGatewaySuccess(p, payment_data) ==
    /\ "amount" \in DOMAIN payment_data
    /\ LET buy_order == BuyOrder(orders)
           token == Len(gateway) + 1
           total_amount == TotalAmount(payment_data.amount)
       IN /\ gateway' = Append(gateway,
                 [buy_order |-> buy_order, amount |-> total_amount, released |-> FALSE])
          /\ local' = [local EXCEPT ![p] =
                 [buy_order |-> buy_order,
                  base_amount |-> payment_data.amount,
                  sent_amount |-> total_amount,
                  token |-> token,
                  transaction_data |-> TransactionData(buy_order, token, payment_data)]]
    /\ trace' = [trace EXCEPT ![p] =
          [NoTrace EXCEPT !.gateway_calls = 1, !.gateway_outcome = "ok"]]
    /\ pc' = [pc EXCEPT ![p] = "store"]
    /\ result' = [result EXCEPT ![p] = None]
    /\ http' = [http EXCEPT ![p] = None]
    /\ UNCHANGED payment_transactions

\* lines 61-81 and 104-112: from the entry to the gateway's answer
create_payment_transaction(p) ==
    /\ UNCHANGED search_vars
    /\ Starts(p)
    /\ orders' = orders + 1
    /\ op' = [op EXCEPT ![p] = "create"]
    /\ \E payment_data \in PaymentRequests :
          \/ CreateMissingAmount(p, payment_data)
          \/ CreateGatewayFailure(p, payment_data)
          \/ CreateGatewaySuccess(p, payment_data)
    /\ UNCHANGED <<bookings, approved_refs, booking_refs>>

\* the INSERT succeeds
StoreInsert(p) ==
    /\ payment_transactions' =
          Append(payment_transactions, NewRow(local[p].transaction_data))
    /\ trace' = [trace EXCEPT ![p].store_inserts = @ + 1]
    /\ gateway' = [gateway EXCEPT ![local[p].token].released = TRUE]
    /\ Return(p, [success |-> TRUE,
                  transaction_id |-> local[p].buy_order,
                  payment_url |-> "url",
                  token |-> local[p].token,
                  amount |-> local[p].transaction_data.amount,
                  currency |-> "CLP"])

\* _store_transaction logs the exception without raising it again: create
\* goes on to its success return
StoreFailureSwallowed(p) ==
    /\ Return(p, [success |-> TRUE,
                  transaction_id |-> local[p].buy_order,
                  payment_url |-> "url",
                  token |-> local[p].token,
                  amount |-> local[p].transaction_data.amount,
                  currency |-> "CLP"])
    /\ gateway' = [gateway EXCEPT ![local[p].token].released = TRUE]
    /\ UNCHANGED <<payment_transactions, trace>>

\* the failure is raised after the row was written
StoreFailureAfterWrite(p) ==
    /\ payment_transactions' =
          Append(payment_transactions, NewRow(local[p].transaction_data))
    /\ Return(p, Failure("store"))
    /\ gateway' = [gateway EXCEPT ![local[p].token].released = TRUE]
    /\ UNCHANGED trace

\* execute_statement raises: _store_transaction re-raises, create returns the
\* failure; the gateway keeps its transaction
StoreFailure(p) ==
    /\ Return(p, Failure("store"))
    /\ gateway' = [gateway EXCEPT ![local[p].token].released = TRUE]
    /\ UNCHANGED <<payment_transactions, trace>>

\* lines 82-103 with _store_transaction
store_transaction(p) ==
    /\ UNCHANGED search_vars
    /\ pc[p] = "store"
    /\ (StoreInsert(p) \/ StoreFailure(p))
    /\ UNCHANGED <<bookings, op, local, approved_refs, orders, booking_refs, requests>>

\* ---------------------------------------------- _get_payment_type_description
PaymentTypeCodes == {"VD", "VN", "VC", "SI", "S2", "S3", "N2", "N3", "N4"}

payment_types ==
    [code \in PaymentTypeCodes |->
        CASE code = "VD" -> "Tarjeta de Débito"
          [] code = "VN" -> "Tarjeta de Crédito"
          [] code = "VC" -> "Tarjeta de Crédito"
          [] code = "SI" -> "Sin Interés"
          [] code = "S2" -> "2 cuotas sin interés"
          [] code = "S3" -> "3 cuotas sin interés"
          [] code = "N2" -> "2 cuotas con interés"
          [] code = "N3" -> "3 cuotas con interés"
          [] code = "N4" -> "4 cuotas con interés"]

\* the default is the code itself: payment_types.get(payment_type_code,
\* payment_type_code)
get_payment_type_descriptionBare(payment_type_code) ==
    IF payment_type_code = None THEN "None"
    ELSE IF payment_type_code[1] \in PaymentTypeCodes
         THEN payment_types[payment_type_code[1]]
         ELSE payment_type_code[1]

\* payment_types.get(payment_type_code, f'Tipo {payment_type_code}')
get_payment_type_description(payment_type_code) ==
    IF payment_type_code = None THEN "Tipo None"
    ELSE IF payment_type_code[1] \in PaymentTypeCodes
         THEN payment_types[payment_type_code[1]]
         ELSE "Tipo " \o payment_type_code[1]

\* ------------------------------------------------ confirm_payment_transaction
\* What the gateway may answer to the PUT for one of its transactions.  The
\* gateway is not part of the repository: any status may come with any call.
GatewayResponses(tx) ==
    { [status |-> Some("AUTHORIZED"), response_code |-> Some(0),
       buy_order |-> tx.buy_order, amount |-> Some(tx.amount),
       authorization_code |-> Some("1213"), payment_type_code |-> Some("VN"),
       card_number |-> Some(<<"X", "6", "6", "2", "3">>),
       installments_number |-> Some(0)],
      [status |-> Some("AUTHORIZED"), response_code |-> Some(-1),
       buy_order |-> tx.buy_order, amount |-> Some(tx.amount),
       authorization_code |-> None, payment_type_code |-> Some("ZZ"),
       card_number |-> Some(<<"X", "6", "6", "2", "3">>),
       installments_number |-> Some(0)],
      [status |-> Some("AUTHORIZED"), response_code |-> None,
       buy_order |-> tx.buy_order, amount |-> Some(tx.amount),
       authorization_code |-> None, payment_type_code |-> Some("VN"),
       card_number |-> None,
       installments_number |-> None],
      [status |-> Some("FAILED"), response_code |-> Some(-1),
       buy_order |-> tx.buy_order, amount |-> Some(tx.amount),
       authorization_code |-> None, payment_type_code |-> Some("VD"),
       card_number |-> None,
       installments_number |-> None],
      [status |-> Some("INITIALIZED"), response_code |-> None,
       buy_order |-> tx.buy_order, amount |-> Some(tx.amount),
       authorization_code |-> None, payment_type_code |-> None,
       card_number |-> None,
       installments_number |-> None] }

\* the response code is not looked at: if status == 'AUTHORIZED'
PaymentStatusByStatusOnly(status, response_code) ==
    IF status = Some("AUTHORIZED") THEN "approved"
    ELSE IF status = Some("FAILED") THEN "rejected"
    ELSE "pending"

\* the response code test inverted: response_code != 0
PaymentStatusInverted(status, response_code) ==
    IF status = Some("AUTHORIZED") /\ response_code # Some(0) THEN "approved"
    ELSE IF status = Some("FAILED") THEN "rejected"
    ELSE "pending"

\* lines 137-143: "Determine payment status"
PaymentStatus(status, response_code) ==
    IF status = Some("AUTHORIZED") /\ response_code = Some(0) THEN "approved"
    ELSE IF status = Some("FAILED") THEN "rejected"
    ELSE "pending"

\* card_number[-4:] if card_number else None
LastFour(card_number) ==
    IF card_number = None \/ card_number = Some(<<>>) THEN None
    ELSE LET s == card_number[1]
         IN Some(IF Len(s) <= 4 THEN s ELSE SubSeq(s, Len(s) - 3, Len(s)))

\* the update_data dictionary of lines 146-156
UpdateData(response) ==
    [status |-> PaymentStatus(response.status, response.response_code),
     authorization_code |-> response.authorization_code,
     response_code |-> response.response_code,
     card_number |-> response.card_number,
     installments |-> response.installments_number,
     payment_type |-> Some(get_payment_type_description(response.payment_type_code))]

\* the dictionary returned by lines 162-174
ConfirmResult(response) ==
    [success |-> TRUE,
     transaction_id |-> response.buy_order,
     status |-> PaymentStatus(response.status, response.response_code),
     amount |-> response.amount,
     authorization_code |-> response.authorization_code,
     card_info |-> [last_four |-> LastFour(response.card_number),
                    card_type |-> get_payment_type_description(response.payment_type_code)],
     installments |-> response.installments_number]

\* tokens a request may carry: those of ended create calls, and one the
\* gateway has never issued
Tokens == 1..(MaxRequests + 1)

\* request bodies of the confirm action: without a token, with the empty
\* string (written 0: the gateway numbers its tokens from 1), with a token
ConfirmRequests ==
    { [action |-> "confirm"] }
    \cup { [action |-> "confirm", token |-> token] : token \in {0} \cup Tokens }

\* only a request without the token key is refused: if token is None
TokenIsNone(token) == token = None

\* line 380: if not token
TokenMissing(token) == token = None \/ token = Some(0)

Presentable(token) ==
    token \in DOMAIN gateway => gateway[token].released

\* a failed PUT is sent once more before the failure is returned
ConfirmGatewayFailureRetried(p, token) ==
    /\ \E outcome \in {"raise", "empty"} :
          /\ (token \notin DOMAIN gateway => outcome = "raise")
          /\ trace' = [trace EXCEPT ![p] =
                [NoTrace EXCEPT !.gateway_calls = 2, !.gateway_outcome = outcome]]
          /\ Return(p, Failure(IF outcome = "raise" THEN "RequestException"
                               ELSE "No response from Transbank confirmation"))
    /\ local' = [local EXCEPT ![p] = [token |-> token]]

\* the PUT raises (unknown token, network error, timeout, raise_for_status) or
\* answers with an empty body: the except branch returns the failure
ConfirmGatewayFailure(p, token) ==
    /\ \E outcome \in {"raise", "empty"} :
          /\ (token \notin DOMAIN gateway => outcome = "raise")
          /\ trace' = [trace EXCEPT ![p] =
                [NoTrace EXCEPT !.gateway_calls = 1, !.gateway_outcome = outcome]]
          /\ Return(p, Failure(IF outcome = "raise" THEN "RequestException"
                               ELSE "No response from Transbank confirmation"))
    /\ local' = [local EXCEPT ![p] = [token |-> token]]

\* the PUT answers: the response is parsed and classified
ConfirmGatewayResponse(p, token) ==
    /\ token \in DOMAIN gateway
    /\ \E response \in GatewayResponses(gateway[token]) :
          local' = [local EXCEPT ![p] =
              [token |-> token,
               buy_order |-> response.buy_order,
               response |-> response,
               payment_status |-> PaymentStatus(response.status, response.response_code)]]
    /\ trace' = [trace EXCEPT ![p] =
          [NoTrace EXCEPT !.gateway_calls = 1, !.gateway_outcome = "ok"]]
    /\ pc' = [pc EXCEPT ![p] = "update"]
    /\ result' = [result EXCEPT ![p] = None]
    /\ http' = [http EXCEPT ![p] = None]

\* lines 377-383, 118-143 and 175-183: from the handler's entry with a
\* confirm request that carries a token to the classified answer
confirm_payment_transaction(p) ==
    /\ UNCHANGED search_vars
    /\ Starts(p)
    /\ op' = [op EXCEPT ![p] = "confirm"]
    /\ \E request_body \in ConfirmRequests :
          LET token == Get(request_body, "token")
          IN /\ ~TokenMissing(token)
             /\ Presentable(token[1])
             /\ \/ ConfirmGatewayFailure(p, token[1])
                \/ ConfirmGatewayResponse(p, token[1])
    /\ UNCHANGED <<payment_transactions, bookings, gateway, approved_refs, orders,
                   booking_refs>>

\* the WHERE clause is missing: UPDATE payment_transactions SET ...
UpdateRowsEverywhere(rows, buy_order, update_data) ==
    [i \in DOMAIN rows |->
        [rows[i] EXCEPT !.status = update_data.status,
                        !.authorization_code = update_data.authorization_code,
                        !.response_code = update_data.response_code,
                        !.card_number = update_data.card_number,
                        !.installments = update_data.installments,
                        !.payment_type = update_data.payment_type]]

\* the row is written only once the outcome is final: a pending
\* classification leaves it as it is
UpdateRowsWhenFinal(rows, buy_order, update_data) ==
    [i \in DOMAIN rows |->
        IF rows[i].buy_order = buy_order /\ update_data.status # "pending"
        THEN [rows[i] EXCEPT !.status = update_data.status,
                             !.authorization_code = update_data.authorization_code,
                             !.response_code = update_data.response_code,
                             !.card_number = update_data.card_number,
                             !.installments = update_data.installments,
                             !.payment_type = update_data.payment_type]
        ELSE rows[i]]

\* UPDATE payment_transactions SET ... WHERE buy_order = :buy_order
UpdateRows(rows, buy_order, update_data) ==
    [i \in DOMAIN rows |->
        IF rows[i].buy_order = buy_order
        THEN [rows[i] EXCEPT !.status = update_data.status,
                             !.authorization_code = update_data.authorization_code,
                             !.response_code = update_data.response_code,
                             !.card_number = update_data.card_number,
                             !.installments = update_data.installments,
                             !.payment_type = update_data.payment_type]
        ELSE rows[i]]

\* SELECT * FROM payment_transactions WHERE buy_order = :buy_order
SelectRows(rows, buy_order) ==
    SelectSeq(rows, LAMBDA row : row.buy_order = buy_order)

\* the booking is processed for every status but pending
FinalizerDueNotPending(payment_status) == payment_status # "pending"

\* the booking is processed for every status but rejected
FinalizerDueNotRejected(payment_status) == payment_status # "rejected"

\* line 159: if payment_status == 'approved'
FinalizerDue(payment_status) == payment_status = "approved"

\* the UPDATE is executed (it matches any number of rows, also none)
UpdateOk(p) ==
    /\ payment_transactions' =
          UpdateRows(payment_transactions, local[p].buy_order, UpdateData(local[p].response))
    /\ trace' = [trace EXCEPT ![p].update = "ok"]
    /\ approved_refs' =
          IF local[p].payment_status = "approved"
             /\ SelectRows(payment_transactions, local[p].buy_order) # <<>>
          THEN approved_refs \cup {local[p].buy_order}
          ELSE approved_refs
    /\ IF FinalizerDue(local[p].payment_status)
       THEN pc' = [pc EXCEPT ![p] = "booking"] /\ UNCHANGED <<result, http>>
       ELSE Return(p, ConfirmResult(local[p].response))

\* _update_transaction logs the error and does not re-raise: confirm goes on
\* as after an executed UPDATE
UpdateFailureLogged(p) ==
    /\ trace' = [trace EXCEPT ![p].update = "failed"]
    /\ IF FinalizerDue(local[p].payment_status)
       THEN pc' = [pc EXCEPT ![p] = "booking"] /\ UNCHANGED <<result, http>>
       ELSE Return(p, ConfirmResult(local[p].response))
    /\ UNCHANGED <<payment_transactions, approved_refs>>

\* execute_statement raises: _update_transaction re-raises and confirm
\* returns the failure
UpdateFailure(p) ==
    /\ trace' = [trace EXCEPT ![p].update = "failed"]
    /\ Return(p, Failure("update"))
    /\ UNCHANGED <<payment_transactions, approved_refs>>

\* lines 145-160 with _update_transaction
update_transaction(p) ==
    /\ UNCHANGED search_vars
    /\ pc[p] = "update"
    /\ (UpdateOk(p) \/ UpdateFailure(p))
    /\ UNCHANGED <<bookings, gateway, op, local, orders, booking_refs, requests>>

\* ------------------------------------------------ _process_successful_booking
\* The columns of payment_transactions in the order of the table's definition,
\* which SELECT * follows.  The table is created outside these sources; the
\* order is the one under which the positions read by lines 306-309 are the
\* flight, user, passenger count and amount columns.
TransactionColumns ==
    <<"buy_order", "token", "amount", "base_amount", "flight_id", "user_id",
      "passenger_count", "tax_amount", "status", "payment_method",
      "authorization_code", "response_code", "card_number", "installments",
      "payment_type">>

\* transaction[i], i counted from 0
Column(transaction, i) == transaction[TransactionColumns[i + 1]]

\* booking_params of lines 304-311: transaction[i]['stringValue'] raises
\* KeyError on a NULL column
Readable(transaction) ==
    /\ Column(transaction, 4) # None
    /\ Column(transaction, 5) # None

\* total_amount is read one column too far (transaction[3], the base amount)
BookingRowShifted(booking_id, transaction, buy_order) ==
    [booking_id |-> booking_id,
     flight_id |-> Column(transaction, 4)[1],
     user_id |-> Column(transaction, 5)[1],
     passenger_count |-> Column(transaction, 6),
     total_amount |-> Column(transaction, 3),
     payment_status |-> "paid",
     booking_status |-> "confirmed",
     payment_method |-> "transbank",
     transaction_reference |-> buy_order]

\* the row of the INSERT INTO bookings
BookingRow(booking_id, transaction, buy_order) ==
    [booking_id |-> booking_id,
     flight_id |-> Column(transaction, 4)[1],
     user_id |-> Column(transaction, 5)[1],
     passenger_count |-> Column(transaction, 6),
     total_amount |-> Column(transaction, 2),
     payment_status |-> "paid",
     booking_status |-> "confirmed",
     payment_method |-> "transbank",
     transaction_reference |-> buy_order]

\* the failure is raised again and reaches confirm's except branch
FinalizerFailsRaises(p, outcome) ==
    /\ trace' = [trace EXCEPT ![p].finalizer_calls = 1,
                              ![p].finalizer_outcome = outcome]
    /\ Return(p, Failure("booking"))

\* the failure is logged and not raised: confirm goes on to its return
FinalizerFails(p, outcome) ==
    /\ trace' = [trace EXCEPT ![p].finalizer_calls = 1,
                              ![p].finalizer_outcome = outcome]
    /\ Return(p, ConfirmResult(local[p].response))

\* line 284: response['records'] is empty, the if has no else: the finalizer
\* returns without an exception and without a log entry
FinalizerFindsNoRecord(p) ==
    /\ trace' = [trace EXCEPT ![p].finalizer_calls = 1,
                              ![p].finalizer_outcome = "no_record"]
    /\ Return(p, ConfirmResult(local[p].response))

\* lines 270-311: the SELECT and the preparation of the booking
process_successful_booking(p) ==
    /\ UNCHANGED search_vars
    /\ pc[p] = "booking"
    /\ LET records == SelectRows(payment_transactions, local[p].buy_order)
       IN \/ /\ FinalizerFails(p, "read_failed")
             /\ UNCHANGED <<local, booking_refs>>
          \/ /\ records = <<>>
             /\ FinalizerFindsNoRecord(p)
             /\ UNCHANGED <<local, booking_refs>>
          \/ /\ records # <<>>
             /\ ~Readable(records[1])
             /\ FinalizerFails(p, "key_error")
             /\ booking_refs' = booking_refs + 1
             /\ UNCHANGED local
          \/ /\ records # <<>>
             /\ Readable(records[1])
             /\ booking_refs' = booking_refs + 1
             /\ local' = [local EXCEPT ![p] =
                   [token |-> local[p].token,
                    buy_order |-> local[p].buy_order,
                    response |-> local[p].response,
                    payment_status |-> local[p].payment_status,
                    booking |-> BookingRow(booking_refs + 1, records[1], local[p].buy_order)]]
             /\ trace' = [trace EXCEPT ![p].finalizer_calls = 1]
             /\ pc' = [pc EXCEPT ![p] = "insert"]
             /\ UNCHANGED <<result, http>>
    /\ UNCHANGED <<payment_transactions, bookings, gateway, op, approved_refs,
                   orders, requests>>

\* the INSERT statement is prepared and never executed
BookingInsertDropped(p) ==
    /\ trace' = [trace EXCEPT ![p].finalizer_outcome = "ok"]
    /\ Return(p, ConfirmResult(local[p].response))
    /\ UNCHANGED bookings

\* what _send_booking_confirmation may come to: the log entry is written, or
\* it raises inside the try block of lines 330-340
NotifierOutcomes == {"sent", "failed"}

\* a failed notification takes the booking back and fails the confirm
BookingInsertUndoneByNotifier(p) ==
    \E outcome \in NotifierOutcomes :
        /\ bookings' = IF outcome = "sent" THEN Append(bookings, local[p].booking)
                       ELSE bookings
        /\ trace' = [trace EXCEPT ![p].booking_inserts = @ + 1,
                                  ![p].finalizer_outcome = "ok",
                                  ![p].notifications = @ + 1,
                                  ![p].notifier_outcome = outcome]
        /\ Return(p, IF outcome = "sent" THEN ConfirmResult(local[p].response)
                     ELSE Failure("notification"))

\* the INSERT succeeds; _send_booking_confirmation (lines 328-340) is called
\* with the booking reference, and its own except branch keeps a failure
BookingInsert(p) ==
    \E outcome \in NotifierOutcomes :
        /\ bookings' = Append(bookings, local[p].booking)
        /\ trace' = [trace EXCEPT ![p].booking_inserts = @ + 1,
                                  ![p].finalizer_outcome = "ok",
                                  ![p].notifications = @ + 1,
                                  ![p].notifier_outcome = outcome]
        /\ Return(p, ConfirmResult(local[p].response))

\* execute_statement raises: logged, not raised
BookingInsertFailure(p) ==
    /\ trace' = [trace EXCEPT ![p].finalizer_outcome = "insert_failed"]
    /\ Return(p, ConfirmResult(local[p].response))
    /\ UNCHANGED bookings

\* lines 313-326 and the return of confirm (lines 162-174)
insert_booking(p) ==
    /\ UNCHANGED search_vars
    /\ pc[p] = "insert"
    /\ (BookingInsert(p) \/ BookingInsertFailure(p))
    /\ UNCHANGED <<payment_transactions, gateway, op, local, approved_refs,
                   orders, booking_refs, requests>>

\* ------------------------------------------------------------ lambda_handler
\* request bodies whose action is neither create nor confirm
UnknownRequests == { [action |-> "refund"] }

\* lines 373-387 and 401-414: the handler raises ValueError before it calls an
\* operation (a confirm request without a token, an unknown action) and
\* answers from its except branch
lambda_handler_error(p) ==
    /\ UNCHANGED search_vars
    /\ Starts(p)
    /\ \E request_body \in ConfirmRequests \cup UnknownRequests, debug \in BOOLEAN :
          /\ request_body.action = "confirm"
                => TokenMissing(Get(request_body, "token"))
          /\ local' = [local EXCEPT ![p] =
                [buy_order |-> 0, request_body |-> request_body]]
          /\ http' = [http EXCEPT ![p] =
                HttpError(IF request_body.action = "confirm"
                          THEN "Token is required for payment confirmation"
                          ELSE "Unknown action: " \o request_body.action,
                          debug)]
    /\ pc' = [pc EXCEPT ![p] = "done"]
    /\ op' = [op EXCEPT ![p] = "none"]
    /\ result' = [result EXCEPT ![p] = None]
    /\ trace' = [trace EXCEPT ![p] = NoTrace]
    /\ UNCHANGED <<payment_transactions, bookings, gateway, approved_refs, orders,
                   booking_refs>>

Next ==
    \E p \in Procs :
        \/ lambda_handler_error(p)
        \/ create_payment_transaction(p)
        \/ store_transaction(p)
        \/ confirm_payment_transaction(p)
        \/ update_transaction(p)
        \/ process_successful_booking(p)
        \/ insert_booking(p)

Spec == Init /\ [][Next]_vars

\* --------------------------------------------------- search.py: flight search
\* seats of the one flight in the table
MaxSeats == 20

\* rows of flights, the columns the booking class is computed from
FlightRows ==
    [available_seats : 0..MaxSeats, total_seats : 0..MaxSeats]

\* search_params of a search: without and with a passenger count
SearchRequests == { [from_airport |-> "SCL"],
                    [from_airport |-> "SCL", passengers |-> 2] }

\* the comparisons are strict: available_seats < total_seats * 0.1
determine_booking_classStrict(available_seats, total_seats) ==
    IF available_seats = 0 THEN "sold_out"
    ELSE IF available_seats * 10 < total_seats * 1 THEN "limited"
    ELSE IF available_seats * 10 < total_seats * 3 THEN "moderate"
    ELSE "available"

\* lines 227-236.  total_seats * 0.1 and total_seats * 0.3 are kept in tenths
\* of a seat.  (The code multiplies in binary floating point: 0.1 and 0.3 are
\* off by less than 2^-54 in relative terms, so for a seat count below 2^50 a
\* product whose exact value is whole is rounded to that whole number, and
\* any other exact value is at least 0.1 away from every whole number; the
\* comparison with the integer available_seats is the exact one.)
determine_booking_class(available_seats, total_seats) ==
    IF available_seats = 0 THEN "sold_out"
    ELSE IF available_seats * 10 <= total_seats * 1 THEN "limited"
    ELSE IF available_seats * 10 <= total_seats * 3 THEN "moderate"
    ELSE "available"

\* lines 131-134: AND f.available_seats >= passengers, when passengers is given
\* and not zero
Selected(row, search_params) ==
    LET passengers == Get(search_params, "passengers")
    IN (passengers # None /\ passengers # Some(0))
       => row.available_seats >= passengers[1]

\* lines 179-214: the dictionary built for one row of the result
Flight(row) ==
    [available_seats |-> row.available_seats,
     total_seats |-> row.total_seats,
     booking_class |-> determine_booking_class(row.available_seats, row.total_seats)]

Flights(rows) == [i \in DOMAIN rows |-> Flight(rows[i])]

\* lines 69-224
search_flights ==
    /\ \E search_params \in SearchRequests :
          found' = Some(Flights(SelectSeq(flights,
                       LAMBDA row : Selected(row, search_params))))
    /\ UNCHANGED <<flights, payment_vars>>

\* the flights table holds one flight; no payment request is handled
SearchInit ==
    /\ PaymentInit
    /\ \E row \in FlightRows : flights = <<row>>
    /\ found = None

SearchNext == search_flights

SearchSpec == SearchInit /\ [][SearchNext]_vars

\* ---------------------------------------------------------------- claims
Rows == DOMAIN payment_transactions

\* invocation p is a confirm whose gateway call was answered
Answered(p) == op[p] = "confirm" /\ trace[p].gateway_outcome = "ok"

\* invocation p, under way, takes a step
Steps(p) == pc'[p] # pc[p]

\* a request starts in slot p
Started(p) ==
    /\ Free(p)
    /\ \A q \in Procs : q < p => ~Free(q)
    /\ requests' # requests

HasBooking(buy_order) ==
    \E i \in DOMAIN bookings : bookings[i].transaction_reference = buy_order

HasRow(buy_order) ==
    \E i \in Rows : payment_transactions[i].buy_order = buy_order

\* C1: a create whose gateway call raised, or was answered without url or
\* token, returns {success: false, error}, has inserted no row, and the step
\* that makes the call leaves the table payment_transactions as it was.
C1_Returned ==
    \A p \in Procs :
        (pc[p] = "done" /\ op[p] = "create"
           /\ trace[p].gateway_outcome \in {"raise", "invalid"})
        => /\ result[p].success = FALSE
           /\ DOMAIN result[p] = {"success", "error"}
           /\ trace[p].store_inserts = 0

C1_Step ==
    \A p \in Procs :
        (Started(p) /\ op'[p] = "create"
           /\ trace'[p].gateway_outcome \in {"raise", "invalid"})
        => payment_transactions' = payment_transactions

C1_GatewayFailureWritesNoRow == []C1_Returned /\ [][C1_Step]_vars

C1_Witness ==
    \E p \in Procs :
        /\ pc[p] = "done" /\ op[p] = "create"
        /\ trace[p].gateway_outcome \in {"raise", "invalid"}
        /\ payment_transactions # <<>>

\* C2: a confirm answered with status AUTHORIZED and response code 0, whose
\* UPDATE is executed, leaves every row of its order reference with status
\* approved, and invokes the booking finalizer once, never more, in that call.
Authorized(response) ==
    response.status = Some("AUTHORIZED") /\ response.response_code = Some(0)

C2_Calls ==
    \A p \in Procs :
        /\ trace[p].finalizer_calls <= 1
        /\ (Answered(p) /\ Authorized(local[p].response) /\ trace[p].update = "ok"
              /\ pc[p] \in {"insert", "done"})
           => trace[p].finalizer_calls = 1

C2_Step ==
    \A p \in Procs :
        (pc[p] = "update" /\ Authorized(local[p].response) /\ trace'[p].update = "ok")
        => /\ pc'[p] = "booking"
           /\ \A i \in DOMAIN payment_transactions' :
                 payment_transactions'[i].buy_order = local[p].buy_order
                 => payment_transactions'[i].status = "approved"

C2_AuthorizedIsApprovedAndFinalizedOnce == []C2_Calls /\ [][C2_Step]_vars

C2_Witness ==
    \E p \in Procs :
        /\ pc[p] = "done" /\ Answered(p) /\ Authorized(local[p].response)
        /\ trace[p].finalizer_calls = 1
        /\ \E i \in Rows :
              /\ payment_transactions[i].buy_order = local[p].buy_order
              /\ payment_transactions[i].status = "approved"

\* C3: a confirm answered with status FAILED, whose UPDATE is executed, leaves
\* every row of its order reference with status rejected; it never invokes the
\* booking finalizer and none of its steps changes the table bookings.
Failed(response) == response.status = Some("FAILED")

C3_Calls ==
    \A p \in Procs :
        (Answered(p) /\ Failed(local[p].response))
        => /\ trace[p].finalizer_calls = 0
           /\ trace[p].booking_inserts = 0
           /\ pc[p] \in {"update", "done"}

C3_Step ==
    \A p \in Procs :
        (pc[p] = "update" /\ Failed(local[p].response) /\ Steps(p))
        => /\ bookings' = bookings
           /\ trace'[p].update = "ok" =>
                 \A i \in DOMAIN payment_transactions' :
                    payment_transactions'[i].buy_order = local[p].buy_order
                    => payment_transactions'[i].status = "rejected"

C3_FailedIsRejectedAndNeverFinalized == []C3_Calls /\ [][C3_Step]_vars

C3_Witness ==
    \E p \in Procs :
        /\ pc[p] = "done" /\ Answered(p) /\ Failed(local[p].response)
        /\ trace[p].update = "ok"
        /\ \E i \in Rows :
              /\ payment_transactions[i].buy_order = local[p].buy_order
              /\ payment_transactions[i].status = "rejected"

\* C4: the table bookings holds at most one row per order reference
\* (transaction_reference).
C4_AtMostOneBookingPerTransaction ==
    \A i, j \in DOMAIN bookings :
        bookings[i].transaction_reference = bookings[j].transaction_reference
        => i = j

\* C5: a row is inserted with status pending, and once its status is approved
\* or rejected no step changes it.
C5_Step ==
    /\ \A i \in DOMAIN payment_transactions' :
          i \notin Rows => payment_transactions'[i].status = "pending"
    /\ \A i \in Rows :
          payment_transactions[i].status \in {"approved", "rejected"}
          => payment_transactions'[i].status = payment_transactions[i].status

C5_TerminalStatusIsFinal == [][C5_Step]_vars

\* C6: every row of bookings names, as transaction_reference, the order
\* reference of a row of payment_transactions whose status a confirm's UPDATE
\* had set to approved before the booking was inserted.
C6_BookingOnlyAfterApproval ==
    \A i \in DOMAIN bookings :
        /\ bookings[i].transaction_reference \in approved_refs
        /\ HasRow(bookings[i].transaction_reference)

C6_Witness ==
    \E i \in DOMAIN bookings : \E j \in Rows :
        /\ payment_transactions[j].buy_order = bookings[i].transaction_reference
        /\ payment_transactions[j].status = "rejected"

\* C7 as stated: once a confirm has set a row's status to approved and has
\* returned, a booking with that order reference exists.
SetApproved(p) ==
    /\ pc[p] = "done" /\ Answered(p)
    /\ trace[p].update = "ok"
    /\ local[p].payment_status = "approved"
    /\ local[p].buy_order \in approved_refs

C8_Response ==
    \A p \in Procs :
        (pc[p] = "done" /\ Answered(p) /\ trace[p].finalizer_calls = 1)
        => /\ result[p].success = TRUE
           /\ result[p].status = "approved"
           /\ result[p].amount = local[p].response.amount
           /\ result[p].authorization_code = local[p].response.authorization_code
           /\ result[p].transaction_id = local[p].response.buy_order

C8_Step ==
    \A p \in Procs :
        (pc[p] \in {"booking", "insert"} /\ Steps(p))
        => payment_transactions' = payment_transactions

C8_FinalizerFailureKeepsResponse == []C8_Response /\ [][C8_Step]_vars

C8_Witness ==
    \E p \in Procs :
        /\ pc[p] = "done" /\ Answered(p)
        /\ trace[p].finalizer_outcome \in {"read_failed", "key_error", "insert_failed"}
        /\ result[p].success = TRUE
        /\ \E i \in Rows :
              /\ payment_transactions[i].buy_order = local[p].buy_order
              /\ payment_transactions[i].status = "approved"

\* C9: for a base amount A >= 0, the amount create sends to the gateway, the
\* amount of the row it inserts and the amount it returns are floor(119*A/100).
Floor119(a) == (119 * a) \div 100

C9_TotalIsFloor ==
    \A p \in Procs :
        (op[p] = "create" /\ trace[p].gateway_calls = 1 /\ local[p].base_amount >= 0)
        => /\ local[p].sent_amount = Floor119(local[p].base_amount)
           /\ trace[p].gateway_outcome = "ok"
              => gateway[local[p].token].amount = Floor119(local[p].base_amount)
           /\ (pc[p] = "done" /\ result[p].success)
              => /\ result[p].amount = Floor119(local[p].base_amount)
                 /\ \E i \in Rows :
                       /\ payment_transactions[i].buy_order = local[p].buy_order
                       /\ payment_transactions[i].base_amount = local[p].base_amount
                       /\ payment_transactions[i].amount = Floor119(local[p].base_amount)

C9_Witness ==
    \E p \in Procs :
        /\ pc[p] = "done" /\ op[p] = "create" /\ result[p].success
        /\ local[p].base_amount = 3
        /\ result[p].amount = 3

\* C10 as stated: in every row the total is the base amount times 1.19 rounded
\* to the nearest whole unit, and is not negative.
RoundNearest(num, den) == (2 * num + den) \div (2 * den)

InvalidAmount(p) ==
    "base_amount" \notin DOMAIN local[p] \/ local[p].base_amount < 0

C12_InvalidAmountIsRefused ==
    \A p \in Procs :
        (op[p] = "create" /\ InvalidAmount(p))
        => /\ trace[p].gateway_calls = 0
           /\ trace[p].store_inserts = 0
           /\ pc[p] = "done"
           /\ result[p].success = FALSE
\* C13: when create returns success, the table holds a row of the returned
\* order reference with the returned token and the returned amount, pending at
\* the moment of the return; the token is the one under which the gateway holds
\* that order reference and that amount.
CreateSucceeded(p) ==
    pc[p] = "done" /\ op[p] = "create" /\ result[p].success

C13_Returned ==
    \A p \in Procs :
        CreateSucceeded(p)
        => /\ \E i \in Rows :
                 /\ payment_transactions[i].buy_order = result[p].transaction_id
                 /\ payment_transactions[i].token = result[p].token
                 /\ payment_transactions[i].amount = result[p].amount
           /\ result[p].token \in DOMAIN gateway
           /\ gateway[result[p].token].buy_order = result[p].transaction_id
           /\ gateway[result[p].token].amount = result[p].amount

C13_Step ==
    \A p \in Procs :
        (pc[p] = "store" /\ pc'[p] = "done" /\ result'[p].success)
        => \E i \in DOMAIN payment_transactions' :
              /\ payment_transactions'[i].buy_order = result'[p].transaction_id
              /\ payment_transactions'[i].status = "pending"

C13_SuccessMeansPendingRow == []C13_Returned /\ [][C13_Step]_vars

C13_Witness ==
    \E p \in Procs : \E i \in Rows :
        /\ CreateSucceeded(p)
        /\ payment_transactions[i].buy_order = result[p].transaction_id
        /\ payment_transactions[i].status = "pending"
        /\ payment_transactions[i].token = result[p].token
\* C14: no two rows have the same order reference; a row is added exactly by
\* the step in which a create returns success, and it is the row of the order
\* reference that create returns; no step removes a row or changes its order
\* reference, and no step of a confirm changes the number of rows.
C14_Unique ==
    \A i, j \in Rows :
        payment_transactions[i].buy_order = payment_transactions[j].buy_order
        => i = j

CreateReturnsSuccess(p) ==
    pc[p] = "store" /\ pc'[p] = "done" /\ result'[p].success

C14_Step ==
    /\ Len(payment_transactions') >= Len(payment_transactions)
    /\ \A i \in Rows :
          payment_transactions'[i].buy_order = payment_transactions[i].buy_order
    /\ Len(payment_transactions') # Len(payment_transactions)
       => \E p \in Procs : CreateReturnsSuccess(p)
    /\ \A p \in Procs :
          CreateReturnsSuccess(p)
          => /\ Len(payment_transactions') = Len(payment_transactions) + 1
             /\ payment_transactions'[Len(payment_transactions')].buy_order
                   = result'[p].transaction_id
    /\ \A p \in Procs :
          (op[p] = "confirm" /\ Steps(p))
          => Len(payment_transactions') = Len(payment_transactions)

C14_OneRowPerOrderReference == []C14_Unique /\ [][C14_Step]_vars

C14_Witness ==
    /\ Len(payment_transactions) = 2
    /\ payment_transactions[1].buy_order # payment_transactions[2].buy_order
    /\ \E p \in Procs :
          pc[p] = "done" /\ op[p] = "confirm" /\ trace[p].update = "ok"
\* a confirm has returned its result dictionary for a gateway answer that
\* carried a card brand code
Rendered(p) ==
    /\ pc[p] = "done" /\ op[p] = "confirm" /\ trace[p].update = "ok"
    /\ result[p].success
    /\ local[p].response.payment_type_code # None

RenderedCode(p) == local[p].response.payment_type_code[1]

\* the description a confirm result must carry for its code, the default
\* being the given prefix followed by the code
RendersWithPrefix(p, prefix) ==
    LET code == RenderedCode(p)
        card_type == result[p].card_info.card_type
    IN /\ code = "VN" => card_type = "Tarjeta de Crédito"
       /\ code \in PaymentTypeCodes => card_type = payment_types[code]
       /\ code \notin PaymentTypeCodes => card_type = prefix \o code

\* C15 as claimed: in every confirm result, code VN renders as the credit-card
\* description, a code of the table as its table entry, and a code that is
\* not in the table as "Type <code>".
C15_UnknownCodeRendersType ==
    \A p \in Procs : Rendered(p) => RendersWithPrefix(p, "Type ")

\* C15 amended: in every confirm result, code VN renders as the credit-card
\* description, a code of the table as its table entry, and a code that is
\* not in the table as "Tipo <code>".
C15_UnknownCodeRendersTipo ==
    \A p \in Procs : Rendered(p) => RendersWithPrefix(p, "Tipo ")

C15_Witness ==
    \E p \in Procs :
        /\ Rendered(p)
        /\ RenderedCode(p) = "ZZ"
        /\ result[p].card_info.card_type = "Tipo ZZ"
\* the response carries the header that admits any origin
AllowsAnyOrigin(response) ==
    /\ "Access-Control-Allow-Origin" \in DOMAIN response.headers
    /\ response.headers["Access-Control-Allow-Origin"] = "*"

\* the request in slot p was refused by the handler itself
Refused(p) == pc[p] = "done" /\ op[p] = "none"

\* C16: every response carries Access-Control-Allow-Origin: *; a request that
\* reached create or confirm is answered 200 with the operation's result as
\* body; a confirm that called the gateway carried a non-empty token; a
\* request with an unknown action, or a confirm request with a missing or
\* empty token, is answered 500, and that invocation calls no gateway and
\* writes to no table.
C16_Responses ==
    \A p \in Procs :
        /\ pc[p] = "done"
           => /\ http[p] # None
              /\ AllowsAnyOrigin(http[p])
        /\ (pc[p] = "done" /\ op[p] \in {"create", "confirm"})
           => /\ http[p].statusCode = 200
              /\ http[p].body = result[p]
        /\ (op[p] = "confirm" /\ trace[p].gateway_calls > 0)
           => local[p].token \in Tokens
        /\ Refused(p)
           => /\ http[p].statusCode = 500
              /\ trace[p] = NoTrace
              /\ \/ local[p].request_body.action \notin {"create", "confirm"}
                 \/ local[p].request_body = [action |-> "confirm"]
                 \/ local[p].request_body = [action |-> "confirm", token |-> 0]

C16_Step ==
    \A p \in Procs :
        (Started(p) /\ pc'[p] = "done" /\ op'[p] = "none")
        => UNCHANGED <<payment_transactions, bookings, gateway>>

C16_HandlerDispatch == []C16_Responses /\ [][C16_Step]_vars

C16_Witness ==
    /\ \E p \in Procs :
          /\ Refused(p)
          /\ local[p].request_body = [action |-> "confirm", token |-> 0]
          /\ http[p].statusCode = 500
    /\ \E p \in Procs :
          /\ pc[p] = "done" /\ op[p] = "confirm"
          /\ http[p].statusCode = 200 /\ http[p].body.success
\* C17: for every gateway answer a confirm has parsed, the classification is
\* approved iff status is AUTHORIZED and response code is 0, rejected iff
\* status is FAILED, pending in every other case (AUTHORIZED with a non-zero
\* or missing response code too), and the result dictionary the confirm
\* returns carries that classification as its status.
C17_Classification ==
    \A p \in Procs :
        Answered(p)
        => LET response == local[p].response
               authorized == response.status = Some("AUTHORIZED")
               failed == response.status = Some("FAILED")
               zero == response.response_code = Some(0)
               payment_status == local[p].payment_status
           IN /\ payment_status = "approved" <=> (authorized /\ zero)
              /\ payment_status = "rejected" <=> failed
              /\ payment_status = "pending" <=> (~(authorized /\ zero) /\ ~failed)
              /\ (authorized /\ ~zero) => payment_status = "pending"
              /\ (pc[p] = "done" /\ result[p].success)
                 => result[p].status = payment_status

C17_Witness ==
    \E p, q \in Procs :
        /\ Answered(p) /\ pc[p] = "done" /\ result[p].success
        /\ local[p].response.status = Some("AUTHORIZED")
        /\ local[p].response.response_code = None
        /\ result[p].status = "pending"
        /\ Answered(q) /\ pc[q] = "done" /\ result[q].success
        /\ local[q].response.response_code = Some(0)
        /\ result[q].status = "approved"
\* invocation p executes its UPDATE in this step
Updates(p) == pc[p] = "update" /\ trace'[p].update = "ok"

\* C18: the step in which a confirm executes its UPDATE leaves, in the row of
\* the answer's order reference, the classified status and the answer's
\* authorization code, response code, card number, installments and card
\* brand description, whatever the classification, pending too; a confirm
\* whose classification is pending never invokes the Booking Finalizer and,
\* its UPDATE executed, returns a success result with status pending.
C18_Step ==
    \A p \in Procs :
        Updates(p)
        => \A i \in Rows :
              payment_transactions[i].buy_order = local[p].buy_order
              => LET row == payment_transactions'[i]
                     response == local[p].response
                 IN /\ row.status = local[p].payment_status
                    /\ row.authorization_code = response.authorization_code
                    /\ row.response_code = response.response_code
                    /\ row.card_number = response.card_number
                    /\ row.installments = response.installments_number
                    /\ row.payment_type =
                          Some(get_payment_type_description(response.payment_type_code))

C18_Pending ==
    \A p \in Procs :
        (Answered(p) /\ local[p].payment_status = "pending")
        => /\ trace[p].finalizer_calls = 0
           /\ trace[p].booking_inserts = 0
           /\ pc[p] \in {"update", "done"}
           /\ (pc[p] = "done" /\ trace[p].update = "ok")
              => /\ result[p].success
                 /\ result[p].status = "pending"
                 /\ http[p].statusCode = 200

C18_PendingIsWrittenAndReturned == []C18_Pending /\ [][C18_Step]_vars

C18_Witness ==
    \E p \in Procs :
        /\ Answered(p) /\ pc[p] = "done" /\ trace[p].update = "ok"
        /\ local[p].payment_status = "pending"
        /\ local[p].response.response_code = Some(-1)
        /\ result[p].success
        /\ \E i \in Rows :
              /\ payment_transactions[i].buy_order = local[p].buy_order
              /\ payment_transactions[i].status = "pending"
              /\ payment_transactions[i].response_code = Some(-1)
              /\ payment_transactions[i].payment_type = Some("Tipo ZZ")
\* C19: a confirm whose UPDATE raised has returned a failure result, has not
\* invoked the Booking Finalizer and has inserted no Booking row, whatever
\* the classification of the gateway answer, approved too; the step in which
\* the UPDATE raises changes neither table.
C19_Failed ==
    \A p \in Procs :
        trace[p].update = "failed"
        => /\ pc[p] = "done"
           /\ ~result[p].success
           /\ trace[p].finalizer_calls = 0
           /\ trace[p].booking_inserts = 0

C19_Step ==
    \A p \in Procs :
        (pc[p] = "update" /\ trace'[p].update = "failed")
        => /\ pc'[p] = "done"
           /\ UNCHANGED <<payment_transactions, bookings>>

C19_UpdateFailureStopsConfirm == []C19_Failed /\ [][C19_Step]_vars

C19_Witness ==
    \E p \in Procs :
        /\ trace[p].update = "failed"
        /\ local[p].payment_status = "approved"
        /\ HasRow(local[p].buy_order)
        /\ ~result[p].success
        /\ ~HasBooking(local[p].buy_order)
\* C20: a confirm whose gateway answer names an order reference that has no
\* row in payment_transactions returns a failure result.
C20_NoRowIsNotFound ==
    \A p \in Procs :
        (pc[p] = "done" /\ Answered(p) /\ ~HasRow(local[p].buy_order))
        => ~result[p].success
\* C21: a Booking Finalizer invocation whose SELECT was executed for an order
\* reference that has no row in payment_transactions has failed with
\* NotFound, has inserted no Booking row and has sent no notification.
C21_FinalizerWithoutRowFails ==
    \A p \in Procs :
        (/\ pc[p] = "done"
         /\ trace[p].finalizer_calls = 1
         /\ trace[p].finalizer_outcome # "read_failed"
         /\ ~HasRow(local[p].buy_order))
        => /\ trace[p].finalizer_outcome = "not_found"
           /\ trace[p].booking_inserts = 0
           /\ trace[p].notifications = 0
\* a create whose gateway call succeeded has ended without its INSERT
InsertFailed(p) ==
    /\ pc[p] = "done" /\ op[p] = "create"
    /\ trace[p].gateway_outcome = "ok"
    /\ trace[p].store_inserts = 0

\* C22: a create whose gateway call succeeded and whose INSERT failed has
\* returned a failure result; no row of its order reference is in
\* payment_transactions; it has made the one gateway call only, and the
\* gateway still holds the transaction of that order reference.
C22_InsertFailureLeavesOrphan ==
    \A p \in Procs :
        InsertFailed(p)
        => /\ ~result[p].success
           /\ ~HasRow(local[p].buy_order)
           /\ trace[p].gateway_calls = 1
           /\ local[p].token \in DOMAIN gateway
           /\ gateway[local[p].token].buy_order = local[p].buy_order

C22_Witness ==
    \E p \in Procs :
        /\ InsertFailed(p)
        /\ ~result[p].success
        /\ gateway[local[p].token].buy_order = local[p].buy_order
        /\ \A i \in Rows : payment_transactions[i].buy_order # local[p].buy_order
\* confirm p has returned after a notification with the given outcome
Notified(p, outcome) ==
    pc[p] = "done" /\ op[p] = "confirm" /\ trace[p].notifier_outcome = outcome

\* C23: a confirm whose notification failed has its Booking row in the table
\* and has returned a success result with status approved, the same result and
\* the same response as a confirm of the same gateway answer whose
\* notification was sent; the step in which the notification fails inserts
\* that Booking row and leaves payment_transactions as it was.
C23_Returned ==
    \A p \in Procs :
        Notified(p, "failed")
        => /\ \E i \in DOMAIN bookings : bookings[i] = local[p].booking
           /\ trace[p].booking_inserts = 1
           /\ result[p].success
           /\ result[p].status = "approved"
           /\ \A q \in Procs :
                 (Notified(q, "sent") /\ local[q].response = local[p].response)
                 => result[q] = result[p] /\ http[q] = http[p]

C23_Step ==
    \A p \in Procs :
        (pc[p] = "insert" /\ trace'[p].notifier_outcome = "failed")
        => /\ bookings' = Append(bookings, local[p].booking)
           /\ UNCHANGED payment_transactions

C23_NotifierFailureChangesNothing == []C23_Returned /\ [][C23_Step]_vars

C23_Witness ==
    \E p, q \in Procs :
        /\ Notified(p, "failed")
        /\ Notified(q, "sent")
        /\ local[q].response = local[p].response
        /\ result[q] = result[p]
        /\ \E i \in DOMAIN bookings : bookings[i] = local[p].booking
\* the gateway call of confirm p raised or came back empty
Unanswered(p) ==
    op[p] = "confirm" /\ trace[p].gateway_outcome \in {"raise", "empty"}

\* C24: a confirm whose gateway call raised or came back empty has returned a
\* failure result, has made that one gateway call only, has executed no
\* UPDATE and no INSERT and has not invoked the Booking Finalizer; the step
\* in which the call fails leaves payment_transactions and bookings as they
\* were.
C24_Returned ==
    \A p \in Procs :
        Unanswered(p)
        => /\ pc[p] = "done"
           /\ ~result[p].success
           /\ trace[p].gateway_calls = 1
           /\ trace[p].update = "none"
           /\ trace[p].store_inserts = 0
           /\ trace[p].finalizer_calls = 0
           /\ trace[p].booking_inserts = 0

C24_Step ==
    \A p \in Procs :
        (Started(p) /\ op'[p] = "confirm"
            /\ trace'[p].gateway_outcome \in {"raise", "empty"})
        => UNCHANGED <<payment_transactions, bookings>>

C24_GatewayFailureStopsConfirm == []C24_Returned /\ [][C24_Step]_vars

C24_Witness ==
    \E p, q \in Procs :
        /\ Unanswered(p) /\ trace[p].gateway_outcome = "empty"
        /\ pc[p] = "done" /\ ~result[p].success
        /\ HasRow(gateway[local[p].token].buy_order)
        /\ Unanswered(q) /\ trace[q].gateway_outcome = "raise"
\* the columns of a row that a confirmation does not set
Identity(row) ==
    <<row.buy_order, row.token, row.base_amount, row.tax_amount, row.amount,
      row.flight_id, row.user_id, row.passenger_count>>

\* invocation p, a confirm, takes a step
ConfirmSteps(p) ==
    \/ Started(p) /\ op'[p] = "confirm"
    \/ op[p] = "confirm" /\ pc[p] \in {"update", "booking", "insert"} /\ Steps(p)

\* C25: a step of a confirm leaves the number of rows as it is, leaves every
\* row whose order reference differs from the buy_order of the gateway answer
\* unchanged, and leaves in the row of that buy_order the order reference,
\* token, base amount, tax amount, total amount, flight reference, user
\* reference and passenger count unchanged.
C25_ConfirmTouchesOnlyItsRow ==
    [][\A p \in Procs :
          ConfirmSteps(p)
          => /\ DOMAIN payment_transactions' = DOMAIN payment_transactions
             /\ \A i \in Rows :
                   /\ Identity(payment_transactions'[i])
                         = Identity(payment_transactions[i])
                   /\ (Started(p)
                       \/ payment_transactions[i].buy_order # local[p].buy_order)
                      => payment_transactions'[i] = payment_transactions[i]]_vars

C25_Witness ==
    \E p \in Procs, i, j \in Rows :
        /\ pc[p] = "done" /\ op[p] = "confirm" /\ trace[p].update = "ok"
        /\ payment_transactions[i].buy_order = local[p].buy_order
        /\ payment_transactions[i].status = "approved"
        /\ payment_transactions[i].authorization_code = Some("1213")
        /\ payment_transactions[j].buy_order # local[p].buy_order
        /\ payment_transactions[j].status = "pending"
        /\ payment_transactions[j].authorization_code = None
\* C26: in every reachable state, every Booking row's transaction has a row in
\* payment_transactions, and the stored status of that row is approved.
C26_BookingsAreOfApprovedRows ==
    \A i \in DOMAIN bookings :
        /\ HasRow(bookings[i].transaction_reference)
        /\ \A j \in Rows :
              payment_transactions[j].buy_order = bookings[i].transaction_reference
              => payment_transactions[j].status = "approved"
\* the four booking classes
BookingClasses == {"sold_out", "limited", "moderate", "available"}

\* C27: every flight a search returns carries exactly one of the four booking
\* classes: sold_out iff no seat is available; limited iff some seat is
\* available and the available seats are at most 10% of the total; moderate
\* iff they are more than 10% and at most 30% of the total; available iff
\* they are more than 30% of the total (so also when total is 0 or smaller
\* than available).
C27_BookingClass ==
    found # None
    => \A i \in DOMAIN found[1] :
          LET available == found[1][i].available_seats
              total == found[1][i].total_seats
              class == found[1][i].booking_class
          IN /\ available = flights[i].available_seats
             /\ total = flights[i].total_seats
             /\ class \in BookingClasses
             /\ class = "sold_out" <=> available = 0
             /\ class = "limited"
                   <=> (available > 0 /\ available * 100 <= total * 10)
             /\ class = "moderate"
                   <=> (available * 100 > total * 10 /\ available * 100 <= total * 30)
             /\ class = "available"
                   <=> (available > 0 /\ available * 100 > total * 30)

C27_Witness ==
    /\ found # None
    /\ Len(found[1]) = 1
    /\ found[1][1].available_seats = 6
    /\ found[1][1].total_seats = 20
    /\ found[1][1].booking_class = "moderate"
====
